---- MODULE Spec2Model ----
(***************************************************************************)
(* Model of the pulse network simulator of src/days/day20.rs:              *)
(* SignalSystem (modules, history, signals), the three module kinds and    *)
(* their process functions, the drain loop process_queue, get_state and    *)
(* compute_pulses.                                                         *)
(***************************************************************************)
EXTENDS Integers, Sequences, FiniteSets

VARIABLES
    input,          \* the parsed text: the module lines the system was built from
    modules,        \* SignalSystem.modules : Vec<Module>
    history,        \* SignalSystem.history : SignalHistory {low, high}
    signals,        \* SignalSystem.signals : VecDeque<Signal>
    pc,             \* position of the running code
    ret,            \* where process_queue returns to
    presses,        \* press_button calls made since the system was built
    reads,          \* get_state calls made since the system was built
    queued,         \* the queue_signal calls of the current trigger, in call order
    processed,      \* the signals handed to on_signal in the current trigger, in order
    configs,        \* (modules, signals) at each pass of the loop of the current trigger
    current_state,  \* the value of the last get_state call
    seen_states,    \* compute_pulses: the log of snapshots
    found,          \* compute_pulses: the (offset, loop_size) printed at line 101
    result,         \* compute_pulses: the returned product
    direct,         \* the history of the system driven by N plain press_button calls
    loops,          \* button_presses_before_low_output: ss_loop, fz_loop, mf_loop, fh_loop (0: None)
    highs,          \* per watched node, the triggers in which on_signal saw it send High
    rx_low,         \* the first trigger in which on_signal saw a Low signal to rx (0: none yet)
    counted,        \* the signals counted by process_queue since the system was built
    reported,       \* the sum of the counts the get_state calls have returned
    read_at,        \* the value of presses at the last get_state call
    sent,           \* the signals the modules have sent since the system was built
    sent_at,        \* the value of sent at the last get_state call
    passes,         \* button_presses_before_low_output: (modules, loops) at each pass that presses
    triggers,       \* the triggers of the test driver: callback, state before and after, signals
    callback,       \* the closure the current trigger hands to process_queue
    events,         \* the on_signal and process calls of the current trigger, in call order
    text,           \* the text handed to from_str, line by line, character by character
    outcome,        \* what from_str made of text
    target,         \* a module value built on its own, as the unit tests build them
    calls           \* the process calls made on target: before, signal, emitted, after

vars == <<input, modules, history, signals, pc, ret, presses, reads, queued,
          processed, configs, current_state, seen_states, found, result, direct,
          loops, highs, rx_low, counted, reported, read_at, sent, sent_at,
          passes, triggers, callback, events, text, outcome, target, calls>>

sysvars == <<input, modules, history, signals, pc, ret, presses, reads, queued,
             processed, configs, current_state, seen_states, found, result, direct,
             loops, highs, rx_low, counted, reported, read_at, sent,
             sent_at, passes, triggers, callback, events, text, outcome>>

unitvars == <<target, calls>>

watchvars == <<loops, highs, rx_low>>

readvars == <<counted, reported, read_at, sent, sent_at>>

logvars == <<triggers, callback, events>>

parsevars == <<text, outcome>>

----------------------------------------------------------------------------
(* Bounds of the model.                                                    *)

\* press_button calls the test driver makes on one system
MaxPresses == 5
\* signals one trigger may deliver before the model stops following it
MaxDeliveries == 100
\* get_state calls the test driver makes on one system
MaxReads == 3
\* lines of a text handed to from_str
MaxLines == 3
\* process calls made on one module built on its own
MaxCalls == 3
\* inputs registered on a Conjunction built on its own
MaxInputs == 2

\* presses the loop of button_presses_before_low_output is followed for
MaxLoopPresses == 12
\* presses the brute force for a Low signal to rx is followed for
MaxBruteForce == 30

\* the triggers of compute_pulses on COUNTER_SYSTEM that SpecTail starts after
TailStart == 995

\* The number of button presses compute_pulses extrapolates to.
N == 1000

----------------------------------------------------------------------------
(* Values.                                                                 *)

Low == "Low"
High == "High"
SignalState == {Low, High}

Range(s) == {s[i] : i \in 1..Len(s)}

Signal(source, destination, state) ==
    [source |-> source, destination |-> destination, state |-> state]

SignalHistory_default == [low |-> 0, high |-> 0]

\* HashMap::new and HashMap::insert
HashMap_new == [k \in {} |-> Low]
HashMap_insert(m, k, v) ==
    [x \in (DOMAIN m) \cup {k} |-> IF x = k THEN v ELSE m[x]]

----------------------------------------------------------------------------
(* The three module kinds.                                                 *)

Broadcaster_new(outputs) ==
    [kind |-> "Broadcaster", outputs |-> outputs]

FlipFlop_new(name, outputs) ==
    [kind |-> "FlipFlop", name |-> name, state |-> Low, outputs |-> outputs]

Conjunction_new(name, outputs) ==
    [kind |-> "Conjunction", name |-> name, state |-> HashMap_new,
     outputs |-> outputs]

\* Broadcaster::process sending Low whatever it received
Broadcaster_process_low(self, signal) ==
    [module  |-> self,
     signals |-> [i \in 1..Len(self.outputs) |->
                     Signal("broadcaster", self.outputs[i], Low)]]

\* process returns the emitted signals and (through &mut self) the module.
Broadcaster_process(self, signal) ==
    [module  |-> self,
     signals |-> [i \in 1..Len(self.outputs) |->
                     Signal("broadcaster", self.outputs[i], signal.state)]]

\* FlipFlop::process sending the level it had before the toggle
FlipFlop_process_old_level(self, signal) ==
    IF signal.state = High
    THEN [module |-> self, signals |-> <<>>]
    ELSE LET state == IF self.state = Low THEN High ELSE Low
         IN  [module  |-> [self EXCEPT !.state = state],
              signals |-> [i \in 1..Len(self.outputs) |->
                              Signal(self.name, self.outputs[i], self.state)]]

\* FlipFlop::process toggling on High signals too
FlipFlop_process_any_level(self, signal) ==
    LET state == IF self.state = Low THEN High ELSE Low
    IN  [module  |-> [self EXCEPT !.state = state],
         signals |-> [i \in 1..Len(self.outputs) |->
                         Signal(self.name, self.outputs[i], state)]]

FlipFlop_process(self, signal) ==
    IF signal.state = High
    THEN [module |-> self, signals |-> <<>>]
    ELSE LET state == IF self.state = Low THEN High ELSE Low
         IN  [module  |-> [self EXCEPT !.state = state],
              signals |-> [i \in 1..Len(self.outputs) |->
                              Signal(self.name, self.outputs[i], state)]]

\* Conjunction::process choosing its level before it stores the incoming one
Conjunction_process_stale(self, signal) ==
    LET inputs == HashMap_insert(self.state, signal.source, signal.state)
        state  == IF \A k \in DOMAIN self.state : self.state[k] = High
                  THEN Low ELSE High
    IN  [module  |-> [self EXCEPT !.state = inputs],
         signals |-> [i \in 1..Len(self.outputs) |->
                         Signal(self.name, self.outputs[i], state)]]

\* a process that files the level under the signal's destination
Conjunction_process_by_destination(self, signal) ==
    LET inputs == HashMap_insert(self.state, signal.destination, signal.state)
        state  == IF \A k \in DOMAIN inputs : inputs[k] = High
                  THEN Low ELSE High
    IN  [module  |-> [self EXCEPT !.state = inputs],
         signals |-> [i \in 1..Len(self.outputs) |->
                         Signal(self.name, self.outputs[i], state)]]

Conjunction_process(self, signal) ==
    LET inputs == HashMap_insert(self.state, signal.source, signal.state)
        state  == IF \A k \in DOMAIN inputs : inputs[k] = High
                  THEN Low ELSE High
    IN  [module  |-> [self EXCEPT !.state = inputs],
         signals |-> [i \in 1..Len(self.outputs) |->
                         Signal(self.name, self.outputs[i], state)]]

\* a registration that takes the input's last signal to have been High
Conjunction_register_input_high(self, in) ==
    [self EXCEPT !.state = HashMap_insert(self.state, in, High)]

Conjunction_register_input(self, in) ==
    [self EXCEPT !.state = HashMap_insert(self.state, in, Low)]

Module_get_name(self) ==
    IF self.kind = "Broadcaster" THEN "broadcaster" ELSE self.name

Module_get_outputs(self) == self.outputs

Module_process(self, signal) ==
    CASE self.kind = "Broadcaster" -> Broadcaster_process(self, signal)
      [] self.kind = "FlipFlop"    -> FlipFlop_process(self, signal)
      [] self.kind = "Conjunction" -> Conjunction_process(self, signal)

Module_register_input(self, in) ==
    IF self.kind = "Conjunction" THEN Conjunction_register_input(self, in)
    ELSE self

\* (name, Vec<(String, SignalState)>): the pairs are kept as the map they list
Module_get_state(self) ==
    CASE self.kind = "Broadcaster" -> <<"broadcaster", HashMap_new>>
      [] self.kind = "FlipFlop"    -> <<self.name, [k \in {"state"} |-> self.state]>>
      [] self.kind = "Conjunction" -> <<self.name, self.state>>

----------------------------------------------------------------------------
(* Building a system from its text.  A line "<label> -> o1, o2" is kept as *)
(* its label, split into the one-character prefix and the name, and the    *)
(* list of its outputs.                                                    *)

Line(prefix, name, outputs) ==
    [prefix |-> prefix, name |-> name, outputs |-> outputs]

Module_from_str(line) ==
    CASE line.prefix = "%" -> FlipFlop_new(line.name, line.outputs)
      [] line.prefix = "&" -> Conjunction_new(line.name, line.outputs)
      [] OTHER             -> Broadcaster_new(line.outputs)

\* a lookup that hands out the module after the one that carries the name
get_module_mut_neighbour(mods, module) ==
    IF \E i \in 1..Len(mods) : Module_get_name(mods[i]) = module
    THEN ((CHOOSE i \in 1..Len(mods) :
              /\ Module_get_name(mods[i]) = module
              /\ \A j \in 1..(i - 1) : Module_get_name(mods[j]) # module)
          % Len(mods)) + 1
    ELSE 0

\* a lookup that hands out the last module where the name is not found
get_module_mut_or_last(mods, module) ==
    IF \E i \in 1..Len(mods) : Module_get_name(mods[i]) = module
    THEN CHOOSE i \in 1..Len(mods) :
            /\ Module_get_name(mods[i]) = module
            /\ \A j \in 1..(i - 1) : Module_get_name(mods[j]) # module
    ELSE Len(mods)

\* iter().find / iter_mut().find by name: the first module of that name, 0 if none
get_module_mut(mods, module) ==
    IF \E i \in 1..Len(mods) : Module_get_name(mods[i]) = module
    THEN CHOOSE i \in 1..Len(mods) :
            /\ Module_get_name(mods[i]) = module
            /\ \A j \in 1..(i - 1) : Module_get_name(mods[j]) # module
    ELSE 0

\* one step of the inner loop of from_str: register `name` at the module `output`
register_output(mods, name, output) ==
    LET t == get_module_mut(mods, output)
    IN  IF t = 0 THEN mods
        ELSE [mods EXCEPT ![t] = Module_register_input(mods[t], name)]

RECURSIVE register_outputs(_, _, _)
register_outputs(mods, name, outputs) ==
    IF outputs = <<>> \/ mods = <<>> THEN mods    \* no module, none to find
    ELSE register_outputs(register_output(mods, name, Head(outputs)),
                          name, Tail(outputs))

\* the outer loop of from_str, over the clone of the parsed modules
RECURSIVE register_inputs(_, _)
register_inputs(mods, clone) ==
    IF clone = <<>> THEN mods
    ELSE register_inputs(
            register_outputs(mods, Module_get_name(Head(clone)),
                             Module_get_outputs(Head(clone))),
            Tail(clone))

SignalSystem_from_str(s) ==
    LET parsed == [i \in 1..Len(s) |-> Module_from_str(s[i])]
    IN  [modules |-> register_inputs(parsed, parsed),
         history |-> SignalHistory_default,
         signals |-> <<>>]

----------------------------------------------------------------------------
(* The networks the model is run on.                                       *)

TEST_SYSTEM_1 ==
    << Line("", "broadcaster", <<"a", "b", "c">>),
       Line("%", "a", <<"b">>),
       Line("%", "b", <<"c">>),
       Line("%", "c", <<"inv">>),
       Line("&", "inv", <<"a">>) >>

TEST_SYSTEM_2 ==
    << Line("", "broadcaster", <<"a">>),
       Line("%", "a", <<"inv", "con">>),
       Line("&", "inv", <<"b">>),
       Line("%", "b", <<"con">>),
       Line("&", "con", <<"output">>) >>

\* a two-bit counter whose high bit latches "e": the state after the first
\* trigger never comes back
LATCH_SYSTEM ==
    << Line("", "broadcaster", <<"t1">>),
       Line("%", "t1", <<"t2">>),
       Line("%", "t2", <<"d">>),
       Line("%", "z", <<"d">>),
       Line("&", "d", <<"e">>),
       Line("&", "e", <<"out">>) >>

\* as LATCH_SYSTEM, with t2 also wired to e: triggers 2 and 6 end in the same
\* module state with different counts
LATCH_SYSTEM_2 ==
    << Line("", "broadcaster", <<"t1">>),
       Line("%", "t1", <<"t2">>),
       Line("%", "t2", <<"e", "d">>),
       Line("%", "z", <<"d">>),
       Line("&", "d", <<"e">>),
       Line("&", "e", <<"out">>) >>

\* FlipFlop a sits on both cycles a -> i1 -> a and a -> j1 -> j2 -> a
RING_SYSTEM ==
    << Line("", "broadcaster", <<"a">>),
       Line("%", "a", <<"i1", "j1">>),
       Line("&", "i1", <<"a">>),
       Line("&", "j1", <<"j2">>),
       Line("&", "j2", <<"a">>) >>

\* no cycle at all: a chain of FlipFlops into a Conjunction
CHAIN_SYSTEM ==
    << Line("", "broadcaster", <<"a", "con">>),
       Line("%", "a", <<"b", "con">>),
       Line("%", "b", <<"con">>),
       Line("&", "con", <<"rx">>) >>

\* The networks button_presses_before_low_output is run on: four counters of
\* FlipFlops, each with a Conjunction that sends Low when the count reaches the
\* period and sets the counter back, inverted by ss, fz, mf and fh into &ql -> rx.

\* periods 3, 7, 1 and 1
WATCH_SYSTEM ==
    << Line("", "broadcaster", <<"a1", "b1", "c1", "d1">>),
       Line("%", "a1", <<"ac", "a2">>),
       Line("%", "a2", <<"ac">>),
       Line("&", "ac", <<"ss", "a1">>),
       Line("&", "ss", <<"ql">>),
       Line("%", "b1", <<"bc", "b2">>),
       Line("%", "b2", <<"bc", "b3">>),
       Line("%", "b3", <<"bc">>),
       Line("&", "bc", <<"fz", "b1">>),
       Line("&", "fz", <<"ql">>),
       Line("%", "c1", <<"cc">>),
       Line("&", "cc", <<"mf", "c1">>),
       Line("&", "mf", <<"ql">>),
       Line("%", "d1", <<"dc">>),
       Line("&", "dc", <<"fh", "d1">>),
       Line("&", "fh", <<"ql">>),
       Line("&", "ql", <<"rx">>) >>

\* periods 3, 4, 6 and 8
SCENARIO_SYSTEM ==
    << Line("", "broadcaster", <<"a1", "b1", "c1", "d1">>),
       Line("%", "a1", <<"ac", "a2">>),
       Line("%", "a2", <<"ac">>),
       Line("&", "ac", <<"ss", "a1">>),
       Line("&", "ss", <<"ql">>),
       Line("%", "b1", <<"b2">>),
       Line("%", "b2", <<"b3">>),
       Line("%", "b3", <<"bc">>),
       Line("&", "bc", <<"fz", "b1", "b2", "b1">>),
       Line("&", "fz", <<"ql">>),
       Line("%", "c1", <<"c2">>),
       Line("%", "c2", <<"cc", "c3">>),
       Line("%", "c3", <<"cc">>),
       Line("&", "cc", <<"mf", "c1", "c1">>),
       Line("&", "mf", <<"ql">>),
       Line("%", "d1", <<"d2">>),
       Line("%", "d2", <<"d3">>),
       Line("%", "d3", <<"d4">>),
       Line("%", "d4", <<"dc">>),
       Line("&", "dc", <<"fh", "d1", "d2", "d3", "d1">>),
       Line("&", "fh", <<"ql">>),
       Line("&", "ql", <<"rx">>) >>

\* ten FlipFlops in a row, a counter of period 1024
COUNTER_SYSTEM ==
    << Line("", "broadcaster", <<"f1">>),
       Line("%", "f1", <<"f2">>),
       Line("%", "f2", <<"f3">>),
       Line("%", "f3", <<"f4">>),
       Line("%", "f4", <<"f5">>),
       Line("%", "f5", <<"f6">>),
       Line("%", "f6", <<"f7">>),
       Line("%", "f7", <<"f8">>),
       Line("%", "f8", <<"f9">>),
       Line("%", "f9", <<"f10">>),
       Line("%", "f10", <<"out">>) >>

WatchNetworks == {WATCH_SYSTEM, SCENARIO_SYSTEM}

\* a Conjunction that carries the name the button signal is addressed to
BUTTON_SYSTEM ==
    << Line("&", "broadcaster", <<"a">>),
       Line("%", "a", <<"out">>) >>

\* a FlipFlop wired back into the Broadcaster, which relays its High to d
FEEDBACK_SYSTEM ==
    << Line("", "broadcaster", <<"a", "d">>),
       Line("%", "a", <<"broadcaster">>),
       Line("&", "d", <<"out">>) >>

\* two FlipFlops of one name: signals to "a" reach the first only
TWIN_SYSTEM ==
    << Line("", "broadcaster", <<"a">>),
       Line("%", "a", <<"d">>),
       Line("%", "a", <<"d">>),
       Line("&", "d", <<"out">>) >>

OddNetworks == {BUTTON_SYSTEM, FEEDBACK_SYSTEM, TWIN_SYSTEM}

Networks ==
    {TEST_SYSTEM_1, TEST_SYSTEM_2, LATCH_SYSTEM, LATCH_SYSTEM_2, RING_SYSTEM,
     CHAIN_SYSTEM}

----------------------------------------------------------------------------
(* SignalSystem.                                                           *)

\* push_front in the place of push_back
queue_signal_front(queue, signal) == <<signal>> \o queue

\* VecDeque::push_back
queue_signal(queue, signal) == Append(queue, signal)

\* for signal in target.process(&signal) { self.queue_signal(signal) }
RECURSIVE queue_signals(_, _)
queue_signals(queue, emitted) ==
    IF emitted = <<>> THEN queue
    ELSE queue_signals(queue_signal(queue, Head(emitted)), Tail(emitted))

\* front() in the place of pop_front(): the signal stays in the queue
pop_front_peek(queue) == [signal |-> Head(queue), rest |-> queue]

\* VecDeque::pop_front on a queue that is not empty
pop_front(queue) == [signal |-> Head(queue), rest |-> Tail(queue)]

\* a count that takes every signal for a Low one
count_signal_low(h, signal) == [h EXCEPT !.low = @ + 1]

\* match signal.state { Low => low += 1, High => high += 1 }
count_signal(h, signal) ==
    IF signal.state = Low THEN [h EXCEPT !.low = @ + 1]
    ELSE [h EXCEPT !.high = @ + 1]

\* a loop test that is also satisfied by a queue holding one last signal
pop_front_none_early(queue) == Len(queue) <= 1

\* line 68: `while let Some(signal) = self.signals.pop_front()` ends the loop
\* when pop_front gives None, that is on the empty queue
pop_front_none(queue) == queue = <<>>

\* a button whose signal depends on how often it was pressed before
button_signal_alternating ==
    Signal("button", "broadcaster", IF presses % 2 = 0 THEN Low ELSE High)

\* line 43: the signal every press queues
button_signal == Signal("button", "broadcaster", Low)

\* (modules.iter().map(get_state).collect(), get_and_clear_history())
\* what a call that does not clear the counters would leave and return
get_and_clear_history_keep(h) == [history |-> h, returned |-> h]

\* the history left in the system and the one returned
get_and_clear_history(h) == [history |-> SignalHistory_default, returned |-> h]

get_state(mods, h) ==
    <<[i \in 1..Len(mods) |-> Module_get_state(mods[i])],
      get_and_clear_history(h).returned>>

add_history(a, b) == [low |-> a.low + b.low, high |-> a.high + b.high]

\* the body of press_button up to the call of process_queue
\* press_button hands process_queue the closure |_| {} (line 43)
NoCallback == "none"

\* a trigger of the test driver as it starts
started(cb) ==
    [callback |-> cb, complete |-> FALSE, processed |-> <<>>,
     before |-> [modules |-> modules, history |-> history],
     after  |-> [modules |-> modules, history |-> history]]

press(returnTo, cb) ==
    /\ signals' = queue_signal(signals, button_signal)
    /\ queued' = <<button_signal>>
    /\ processed' = <<>>
    /\ configs' = <<>>
    /\ presses' = presses + 1
    /\ pc' = "process_queue"
    /\ ret' = returnTo
    /\ callback' = cb
    /\ events' = <<>>
    /\ triggers' = IF returnTo = "ready" THEN Append(triggers, started(cb))
                   ELSE triggers

Watched == {"ss", "fz", "mf", "fh"}

\* the closure handed to press_button_with_callback (lines 169-189), with
\* `presses` as it captured it
on_signal(l, p, s) ==
    IF s.state = High /\ s.source \in Watched
    THEN [l EXCEPT ![s.source] = p]
    ELSE l

\* what an observer of the same on_signal calls notes down
seen_high(h, p, s) ==
    IF s.state = High /\ s.source \in Watched
    THEN [h EXCEPT ![s.source] = @ \cup {p}]
    ELSE h

\* a loop body that hands the callback only the signals whose destination
\* is a module of the network
called_resolved(log, signal, t) ==
    IF t = 0 THEN log
    ELSE Append(Append(log, [call |-> "on_signal", signal |-> signal]),
                [call |-> "process", signal |-> signal])

\* lines 75-82 in the order of the calls: on_signal(&signal), then
\* target.process(&signal) where a target is found
called(log, signal, t) ==
    IF t = 0
    THEN Append(log, [call |-> "on_signal", signal |-> signal])
    ELSE Append(Append(log, [call |-> "on_signal", signal |-> signal]),
                [call |-> "process", signal |-> signal])

\* one iteration of the loop of process_queue that finds a signal
ProcessSignal ==
    /\ pc = "process_queue"
    /\ ~pop_front_none(signals)
    /\ Len(processed) < MaxDeliveries
    /\ LET popped == pop_front(signals)
           signal == popped.signal
           t      == get_module_mut(modules, signal.destination)
           done   == IF t = 0 THEN [module |-> 0, signals |-> <<>>]
                     ELSE Module_process(modules[t], signal)
       IN  /\ history' = count_signal(history, signal)
           /\ counted' = count_signal(counted, signal)
           /\ processed' = Append(processed, signal)
           /\ configs' = Append(configs, <<modules, signals>>)
           /\ modules' = IF t = 0 THEN modules
                         ELSE [modules EXCEPT ![t] = done.module]
           /\ signals' = queue_signals(popped.rest, done.signals)
           /\ queued' = queued \o done.signals
           /\ sent' = sent + Len(done.signals)
           /\ events' = called(events, signal, t)
           /\ loops' = IF callback = "loops"
                        THEN on_signal(loops, presses, signal) ELSE loops
           /\ highs' = IF callback \in {"loops", "rx"}
                        THEN seen_high(highs, presses, signal) ELSE highs
           /\ rx_low' = IF callback = "rx" /\ rx_low = 0
                            /\ signal.destination = "rx" /\ signal.state = Low
                         THEN presses ELSE rx_low
    /\ UNCHANGED <<input, pc, ret, presses, reads, current_state, seen_states,
                   found, result, direct, reported, read_at, sent_at, passes,
                   triggers, callback, unitvars, parsevars>>

\* the iteration that finds the queue empty: return
ProcessQueueReturn ==
    /\ pc = "process_queue"
    /\ pop_front_none(signals)
    /\ pc' = ret
    /\ triggers' = IF ret = "ready"
                   THEN [triggers EXCEPT ![Len(triggers)] =
                            [@ EXCEPT !.complete = TRUE,
                                      !.processed = processed,
                                      !.after = [modules |-> modules,
                                                 history |-> history]]]
                   ELSE triggers
    /\ UNCHANGED <<input, modules, history, signals, ret, presses, reads,
                   queued, processed, configs, current_state, seen_states,
                   found, result, direct, passes, callback, events,
                   unitvars, parsevars, watchvars, readvars>>

\* a caller, as the tests are, pressing the button
PressButton ==
    /\ pc = "ready"
    /\ presses < MaxPresses
    /\ press("ready", NoCallback)
    /\ UNCHANGED <<input, modules, history, reads, current_state, seen_states,
                   found, result, direct, passes, unitvars, parsevars,
                   watchvars, readvars>>

\* a caller pressing the button with the closure of lines 169-189
PressButtonWithCallback ==
    /\ pc = "ready"
    /\ presses < MaxPresses
    /\ press("ready", "loops")
    /\ UNCHANGED <<input, modules, history, reads, current_state, seen_states,
                   found, result, direct, passes, unitvars, parsevars,
                   watchvars, readvars>>

\* a caller taking a snapshot
GetState ==
    /\ pc = "ready"
    /\ reads < MaxReads
    /\ current_state' = get_state(modules, history)
    /\ history' = get_and_clear_history(history).history
    /\ reads' = reads + 1
    /\ reported' = add_history(reported, get_state(modules, history)[2])
    /\ read_at' = presses
    /\ sent_at' = sent
    /\ UNCHANGED <<input, modules, signals, pc, ret, presses, queued,
                   processed, configs, seen_states, found, result, direct,
                   counted, sent, passes, logvars, unitvars, parsevars,
                   watchvars>>

NoState == <<<<>>, SignalHistory_default>>
NoParse == [kind |-> "None"]
NoModule == [kind |-> "None"]

NoLoops == [w \in Watched |-> 0]
NoHighs == [w \in Watched |-> {}]

InitSystemOn(networks, start) ==
    /\ input \in networks
    /\ modules = SignalSystem_from_str(input).modules
    /\ history = SignalSystem_from_str(input).history
    /\ signals = SignalSystem_from_str(input).signals
    /\ pc = start
    /\ ret = start
    /\ presses = 0
    /\ reads = 0
    /\ counted = SignalHistory_default
    /\ reported = SignalHistory_default
    /\ read_at = 0
    /\ sent = 0
    /\ sent_at = 0
    /\ passes = <<>>
    /\ triggers = <<>>
    /\ callback = NoCallback
    /\ events = <<>>
    /\ text = <<>>
    /\ outcome = NoParse
    /\ queued = <<>>
    /\ processed = <<>>
    /\ configs = <<>>
    /\ current_state = NoState
    /\ seen_states = <<>>
    /\ found = <<>>
    /\ result = 0
    /\ direct = SignalHistory_default
    /\ loops = NoLoops
    /\ highs = NoHighs
    /\ rx_low = 0
    /\ target = NoModule
    /\ calls = <<>>

InitSystem(start) == InitSystemOn(Networks, start)

Init == InitSystem("ready")

Next ==
    \/ PressButton
    \/ ProcessSignal
    \/ ProcessQueueReturn
    \/ GetState

Spec == Init /\ [][Next]_vars

\* the same callers on every network, those that from_str accepts although
\* no puzzle input looks like them included
InitOdd == InitSystemOn(Networks \cup OddNetworks, "ready")

SpecOdd == InitOdd /\ [][Next]_vars

\* the driver pressing the button with a closure or without, as it likes
NextObserved ==
    \/ PressButton
    \/ PressButtonWithCallback
    \/ ProcessSignal
    \/ ProcessQueueReturn
    \/ GetState

\* a FlipFlop inverted by a Conjunction that carries one of the names the
\* closure of lines 169-189 looks for
SEEN_SYSTEM ==
    << Line("", "broadcaster", <<"a">>),
       Line("%", "a", <<"ss">>),
       Line("&", "ss", <<"out">>) >>

InitObserved == InitSystemOn(Networks \cup {SEEN_SYSTEM}, "ready")

SpecObserved == InitObserved /\ [][NextObserved]_vars

----------------------------------------------------------------------------
(* compute_pulses.                                                         *)

\* current_state.eq(s): equality of the (module states, SignalHistory) tuples
state_eq(current, s) == current = s

\* a search that leaves out the first entry of the log
position_after_first(seen, current) ==
    IF \E i \in 2..Len(seen) : state_eq(current, seen[i])
    THEN (CHOOSE i \in 2..Len(seen) :
             /\ state_eq(current, seen[i])
             /\ \A j \in 2..(i - 1) : ~state_eq(current, seen[j])) - 1
    ELSE Len(seen)

\* seen_states.iter().position(..): the first matching index, counted from 0;
\* Len(seen) stands for None
position(seen, current) ==
    IF \E i \in 1..Len(seen) : state_eq(current, seen[i])
    THEN (CHOOSE i \in 1..Len(seen) :
             /\ state_eq(current, seen[i])
             /\ \A j \in 1..(i - 1) : ~state_eq(current, seen[j])) - 1
    ELSE Len(seen)

\* a fold that keeps the counts of the last entry alone
fold_history_last(seen, k) ==
    IF seen = <<>> THEN SignalHistory_default
    ELSE [low  |-> seen[Len(seen)][2].low * k,
          high |-> seen[Len(seen)][2].high * k]

\* .iter().map(|s| s.1).fold(default, |acc, c| {acc.low + c.low * k, ..});
\* the sum is taken by halves, the same total for a log of any length
RECURSIVE fold_history(_, _)
fold_history(seen, k) ==
    IF seen = <<>> THEN SignalHistory_default
    ELSE IF Len(seen) = 1
    THEN add_history(SignalHistory_default,
                     [low |-> seen[1][2].low * k, high |-> seen[1][2].high * k])
    ELSE LET half == Len(seen) \div 2
         IN  add_history(fold_history(SubSeq(seen, 1, half), k),
                         fold_history(SubSeq(seen, half + 1, Len(seen)), k))

\* seen_states[from..to], indices counted from 0, `to` excluded
slice(seen, from, to) == SubSeq(seen, from + 1, to)

\* the offset taken for the length of the loop
loop_size_offset(seen, offset) == offset

\* line 100
loop_size(seen, offset) == Len(seen) - offset

\* what makes lines 104-111 panic: a division by zero, or a range that is
\* not within the log
panics(seen, offset) ==
    \/ loop_size(seen, offset) = 0
    \/ offset > Len(seen)
    \/ offset + (N % loop_size(seen, offset)) > Len(seen)

\* the total with the counts of the loop taken once, not full_loops times
loop_total_once(seen, offset) ==
    LET before_loop == fold_history(slice(seen, 0, offset), 1)
        during_loop == fold_history(slice(seen, offset, Len(seen)), 1)
        remainder   == N % loop_size(seen, offset)
        after_loop  == fold_history(slice(seen, offset, offset + remainder), 1)
    IN  [low  |-> before_loop.low + during_loop.low + after_loop.low,
         high |-> before_loop.high + during_loop.high + after_loop.high]

\* lines 100-117: the total once a loop is found at `offset`
loop_total(seen, offset) ==
    LET before_loop == fold_history(slice(seen, 0, offset), 1)
        full_loops  == N \div loop_size(seen, offset)
        during_loop == fold_history(slice(seen, offset, Len(seen)), full_loops)
        remainder   == N % loop_size(seen, offset)
        after_loop  == fold_history(slice(seen, offset, offset + remainder), 1)
    IN  [low  |-> before_loop.low + during_loop.low + after_loop.low,
         high |-> before_loop.high + during_loop.high + after_loop.high]

\* lines 94-95
ComputePulsesStart ==
    /\ pc = "compute_pulses"
    /\ seen_states' = <<>>
    /\ press("loop", NoCallback)
    /\ UNCHANGED <<input, modules, history, reads, current_state, found,
                   result, direct, passes, unitvars, parsevars,
                   watchvars, readvars>>

\* lines 98-129: one pass of the loop, up to its return or its press_button
ComputePulsesLoop ==
    /\ pc = "loop"
    /\ LET current == get_state(modules, history)
           offset  == position(seen_states, current)
           pushed  == Append(seen_states, current)
       IN  /\ current_state' = current
           /\ history' = get_and_clear_history(history).history
           /\ reads' = reads + 1
           /\ reported' = add_history(reported, current[2])
           /\ read_at' = presses
           /\ sent_at' = sent
           /\ IF offset < Len(seen_states)
              THEN /\ found' = <<offset, loop_size(seen_states, offset)>>
                   /\ IF panics(seen_states, offset)
                      THEN /\ result' = result
                           /\ pc' = "panicked"
                      ELSE /\ result' = loop_total(seen_states, offset).low
                                          * loop_total(seen_states, offset).high
                           /\ pc' = "returned"
                   /\ UNCHANGED <<seen_states, signals, queued, processed,
                                  configs, presses, ret, logvars>>
              ELSE /\ seen_states' = pushed
                   /\ found' = found
                   /\ IF Len(pushed) = N
                      THEN /\ result' = fold_history(pushed, 1).low
                                          * fold_history(pushed, 1).high
                           /\ pc' = "returned"
                           /\ UNCHANGED <<signals, queued, processed, configs,
                                          presses, ret, logvars>>
                      ELSE /\ result' = result
                           /\ press("loop", NoCallback)
    /\ UNCHANGED <<input, modules, direct, counted, sent, passes, unitvars,
                   parsevars, watchvars>>

\* the same text parsed again, to be driven by plain press_button calls
DirectStart ==
    /\ pc = "returned"
    /\ modules' = SignalSystem_from_str(input).modules
    /\ history' = SignalSystem_from_str(input).history
    /\ signals' = SignalSystem_from_str(input).signals
    /\ presses' = 0
    /\ reads' = 0
    /\ counted' = SignalHistory_default
    /\ reported' = SignalHistory_default
    /\ read_at' = 0
    /\ sent' = 0
    /\ sent_at' = 0
    /\ pc' = "direct"
    /\ UNCHANGED <<input, ret, queued, processed, configs, current_state,
                   seen_states, found, result, direct, passes, logvars,
                   unitvars, parsevars, watchvars>>

DirectPress ==
    /\ pc = "direct"
    /\ presses < N
    /\ press("direct", NoCallback)
    /\ UNCHANGED <<input, modules, history, reads, current_state, seen_states,
                   found, result, direct, passes, unitvars, parsevars,
                   watchvars, readvars>>

DirectDone ==
    /\ pc = "direct"
    /\ presses = N
    /\ direct' = history
    /\ pc' = "done"
    /\ UNCHANGED <<input, modules, history, signals, ret, presses, reads,
                   queued, processed, configs, current_state, seen_states,
                   found, result, passes, logvars, unitvars, parsevars,
                   watchvars, readvars>>

InitPulses == InitSystem("compute_pulses")

NextPulses ==
    \/ ComputePulsesStart
    \/ ProcessSignal
    \/ ProcessQueueReturn
    \/ ComputePulsesLoop
    \/ DirectStart
    \/ DirectPress
    \/ DirectDone

\* compute_pulses on the network that comes back to no state in N triggers
InitLong == InitSystemOn({COUNTER_SYSTEM}, "compute_pulses")

SpecLong == InitLong /\ [][NextPulses]_vars

\* COUNTER_SYSTEM after k triggers: FlipFlop f_i holds bit i - 1 of k, and
\* trigger k sent one High and, with z the zero bits k ends in, 2 + z Low
CounterModules(k) ==
    [i \in 1..Len(COUNTER_SYSTEM) |->
        IF i = 1 THEN SignalSystem_from_str(COUNTER_SYSTEM).modules[i]
        ELSE [SignalSystem_from_str(COUNTER_SYSTEM).modules[i] EXCEPT
                 !.state = IF (k \div (2 ^ (i - 2))) % 2 = 1 THEN High ELSE Low]]

CounterHistory(k) ==
    [low  |-> 2 + (CHOOSE z \in 0..10 : k % (2 ^ z) = 0 /\ k % (2 ^ (z + 1)) # 0),
     high |-> 1]

CounterLog(k) == [j \in 1..k |-> get_state(CounterModules(j), CounterHistory(j))]

\* compute_pulses on COUNTER_SYSTEM, taken up where its loop has pushed
\* snapshot TailStart and called press_button: the state SpecLong is in there
InitTail ==
    /\ input = COUNTER_SYSTEM
    /\ modules = CounterModules(TailStart)
    /\ history = SignalHistory_default
    /\ signals = <<button_signal>>
    /\ pc = "process_queue"
    /\ ret = "loop"
    /\ presses = TailStart + 1
    /\ reads = TailStart
    /\ counted = fold_history(CounterLog(TailStart), 1)
    /\ reported = fold_history(CounterLog(TailStart), 1)
    /\ read_at = TailStart
    /\ sent = fold_history(CounterLog(TailStart), 1).low
                    + fold_history(CounterLog(TailStart), 1).high - TailStart
    /\ sent_at = fold_history(CounterLog(TailStart), 1).low
                       + fold_history(CounterLog(TailStart), 1).high - TailStart
    /\ passes = <<>>
    /\ triggers = <<>>
    /\ callback = NoCallback
    /\ events = <<>>
    /\ text = <<>>
    /\ outcome = NoParse
    /\ queued = <<button_signal>>
    /\ processed = <<>>
    /\ configs = <<>>
    /\ current_state = CounterLog(TailStart)[TailStart]
    /\ seen_states = CounterLog(TailStart)
    /\ found = <<>>
    /\ result = 0
    /\ direct = SignalHistory_default
    /\ loops = NoLoops
    /\ highs = NoHighs
    /\ rx_low = 0
    /\ target = NoModule
    /\ calls = <<>>

NextTail ==
    \/ ProcessSignal
    \/ ProcessQueueReturn
    \/ ComputePulsesLoop
    \/ DirectStart
    \/ DirectPress
    \/ DirectDone

SpecTail == InitTail /\ [][NextTail]_vars

SpecPulses == InitPulses /\ [][NextPulses]_vars

----------------------------------------------------------------------------
(* button_presses_before_low_output.                                       *)

\* Option::and, None kept as 0
Option_and(a, b) == IF a = 0 THEN 0 ELSE b

\* crate::util::number::lcm: the least common multiple
RECURSIVE gcd(_, _)
gcd(a, b) == IF b = 0 THEN a ELSE gcd(b, a % b)
lcm(a, b) == (a * b) \div gcd(a, b)

\* lines 167-192: the loop test, then either one more press or the return
ButtonPressesLoop ==
    /\ pc = "button_presses"
    /\ IF Option_and(Option_and(Option_and(loops.ss, loops.fz), loops.mf),
                     loops.fh) = 0
       THEN /\ presses < MaxLoopPresses
            /\ press("button_presses", "loops")
            /\ passes' = Append(passes, <<modules, loops>>)
            /\ result' = result
       ELSE /\ result' = lcm(lcm(loops.ss, loops.fz), lcm(loops.mf, loops.fh))
            /\ pc' = "presses_returned"
            /\ UNCHANGED <<signals, queued, processed, configs, presses, ret,
                           passes, logvars>>
    /\ UNCHANGED <<input, modules, history, reads, current_state, seen_states,
                   found, direct, unitvars, parsevars, watchvars, readvars>>

\* the brute force of line 144: the same text parsed again and pressed until
\* on_signal sees a Low signal to rx
BruteForceStart ==
    /\ pc = "presses_returned"
    /\ modules' = SignalSystem_from_str(input).modules
    /\ history' = SignalSystem_from_str(input).history
    /\ signals' = SignalSystem_from_str(input).signals
    /\ presses' = 0
    /\ highs' = NoHighs
    /\ counted' = SignalHistory_default
    /\ sent' = 0
    /\ pc' = "rx"
    /\ UNCHANGED <<input, ret, reads, queued, processed, configs, current_state,
                   seen_states, found, result, direct, loops, rx_low, reported,
                   read_at, sent_at, passes, logvars, unitvars, parsevars>>

BruteForcePress ==
    /\ pc = "rx"
    /\ rx_low = 0
    /\ presses < MaxBruteForce
    /\ press("rx", "rx")
    /\ UNCHANGED <<input, modules, history, reads, current_state, seen_states,
                   found, result, direct, passes, unitvars, parsevars, watchvars,
                   readvars>>

BruteForceDone ==
    /\ pc = "rx"
    /\ rx_low # 0 \/ presses = MaxBruteForce
    /\ pc' = "rx_done"
    /\ UNCHANGED <<input, modules, history, signals, ret, presses, reads,
                   queued, processed, configs, current_state, seen_states,
                   found, result, direct, passes, logvars, unitvars, parsevars,
                   watchvars, readvars>>

InitPresses == InitSystemOn(WatchNetworks, "button_presses")

NextPresses ==
    \/ ButtonPressesLoop
    \/ ProcessSignal
    \/ ProcessQueueReturn
    \/ BruteForceStart
    \/ BruteForcePress
    \/ BruteForceDone

SpecPresses == InitPresses /\ [][NextPresses]_vars

\* the same entry point on networks that have none of the nodes ss, fz, mf, fh
StuckNetworks == {TEST_SYSTEM_1, TEST_SYSTEM_2}

InitStuck == InitSystemOn(StuckNetworks \cup {WATCH_SYSTEM}, "button_presses")

SpecStuck == InitStuck /\ [][NextPresses]_vars

----------------------------------------------------------------------------
(* from_str on the text itself.  A line is the sequence of its characters, *)
(* a text the sequence of its lines (s.lines()).                           *)

\* the strings that name modules in the texts below, and their characters
Strings == {"", "a", "b", "broadcaster"}

chars(str) ==
    CASE str = "broadcaster"
            -> <<"b", "r", "o", "a", "d", "c", "a", "s", "t", "e", "r">>
      [] str = "" -> <<>>
      [] OTHER -> <<str>>

\* to_string: the string of a sequence of characters
to_string(cs) ==
    IF \E str \in Strings : chars(str) = cs
    THEN CHOOSE str \in Strings : chars(str) = cs
    ELSE cs

\* str::split on a pattern `pat` of one or two characters
RECURSIVE split(_, _)
split(cs, pat) ==
    LET at(i) == SubSeq(cs, i, i + Len(pat) - 1) = pat
    IN  IF \E i \in 1..(Len(cs) - Len(pat) + 1) : at(i)
        THEN LET i == CHOOSE i \in 1..(Len(cs) - Len(pat) + 1) :
                         at(i) /\ \A j \in 1..(i - 1) : ~at(j)
             IN  <<SubSeq(cs, 1, i - 1)>>
                    \o split(SubSeq(cs, i + Len(pat), Len(cs)), pat)
        ELSE <<cs>>

\* str::trim
RECURSIVE trim_start(_)
trim_start(cs) ==
    IF cs # <<>> /\ Head(cs) = " " THEN trim_start(Tail(cs)) ELSE cs

RECURSIVE trim_end(_)
trim_end(cs) ==
    IF cs # <<>> /\ cs[Len(cs)] = " "
    THEN trim_end(SubSeq(cs, 1, Len(cs) - 1)) ELSE cs

trim(cs) == trim_end(trim_start(cs))

Ok(value) == [kind |-> "Ok", value |-> value]
Err(message, about) == [kind |-> "Err", message |-> message, about |-> about]
Panic(message) == [kind |-> "Panic", message |-> message]

\* lines 491-496: the match on &label_str[0..1]
Module_parse_label(label_str, outputs) ==
    IF Len(label_str) < 1
    THEN Panic("byte index 1 is out of bounds")
    ELSE CASE label_str[1] = "%"
                 -> Ok(Module_from_str(Line("%", to_string(Tail(label_str)), outputs)))
           [] label_str[1] = "&"
                 -> Ok(Module_from_str(Line("&", to_string(Tail(label_str)), outputs)))
           [] label_str = chars("broadcaster")
                 -> Ok(Module_from_str(Line("", "broadcaster", outputs)))
           [] OTHER -> Err("Invalid module", label_str)

\* impl FromStr for Module, on the characters of one line (lines 483-497)
Module_parse(cs) ==
    LET parts == split(cs, <<"-", ">">>)
    IN  IF Len(parts) # 2
        THEN Err("Invalid module line", cs)
        ELSE LET label_str   == trim(parts[1])
                 outputs_str == trim(parts[2])
                 pieces      == split(outputs_str, <<",">>)
                 outputs     == [k \in 1..Len(pieces) |-> to_string(trim(pieces[k]))]
             IN  Module_parse_label(label_str, outputs)

\* impl FromStr for SignalSystem on a text (lines 459-477): `?` returns the
\* first Err, and a panic ends the call where it happens
SignalSystem_parse(t) ==
    LET results == [i \in 1..Len(t) |-> Module_parse(t[i])]
        failed  == {i \in 1..Len(t) : results[i].kind # "Ok"}
    IN  IF failed = {}
        THEN LET pushed == [i \in 1..Len(t) |-> results[i].value]
             IN  Ok([modules |-> register_inputs(pushed, pushed),
                     history |-> SignalHistory_default,
                     signals |-> <<>>])
        ELSE results[CHOOSE i \in failed : \A j \in failed : i <= j]

ARROW == <<" ", "-", ">", " ">>

\* "%a -> b", "&b -> a, b", "broadcaster -> a", and the malformed
\* "%a b", "%a -> b -> a", " -> a", "a -> b"
RawLines ==
    { <<"%", "a">> \o ARROW \o <<"b">>,
      <<"&", "b">> \o ARROW \o <<"a", ",", " ", "b">>,
      chars("broadcaster") \o ARROW \o <<"a">>,
      <<"%", "a", " ", "b">>,
      <<"%", "a">> \o ARROW \o <<"b">> \o ARROW \o <<"a">>,
      ARROW \o <<"a">>,
      <<"a">> \o ARROW \o <<"b">> }

Texts == UNION {[1..n -> RawLines] : n \in 1..MaxLines}

\* input.parse() of puzzle1 and puzzle2
FromStr ==
    /\ pc = "from_str"
    /\ outcome' = SignalSystem_parse(text)
    /\ IF SignalSystem_parse(text).kind = "Ok"
       THEN /\ modules' = SignalSystem_parse(text).value.modules
            /\ history' = SignalSystem_parse(text).value.history
            /\ signals' = SignalSystem_parse(text).value.signals
            /\ pc' = "parsed"
       ELSE /\ UNCHANGED <<modules, history, signals>>
            /\ pc' = IF SignalSystem_parse(text).kind = "Err" THEN "failed"
                     ELSE "panicked"
    /\ UNCHANGED <<input, ret, presses, reads, queued, processed, configs,
                   current_state, seen_states, found, result, direct, passes,
                   logvars, text, unitvars, watchvars, readvars>>

InitParse ==
    /\ text \in Texts
    /\ outcome = NoParse
    /\ input = <<>>
    /\ modules = <<>>
    /\ history = SignalHistory_default
    /\ signals = <<>>
    /\ pc = "from_str"
    /\ ret = "from_str"
    /\ presses = 0
    /\ reads = 0
    /\ counted = SignalHistory_default
    /\ reported = SignalHistory_default
    /\ read_at = 0
    /\ sent = 0
    /\ sent_at = 0
    /\ passes = <<>>
    /\ triggers = <<>>
    /\ callback = NoCallback
    /\ events = <<>>
    /\ queued = <<>>
    /\ processed = <<>>
    /\ configs = <<>>
    /\ current_state = NoState
    /\ seen_states = <<>>
    /\ found = <<>>
    /\ result = 0
    /\ direct = SignalHistory_default
    /\ loops = NoLoops
    /\ highs = NoHighs
    /\ rx_low = 0
    /\ target = NoModule
    /\ calls = <<>>

NextParse == FromStr

SpecParse == InitParse /\ [][NextParse]_vars

----------------------------------------------------------------------------
(* One module built on its own and handed signals, as the unit tests do.   *)

OutputLists == {<<>>, <<"x">>, <<"x", "y">>, <<"y", "x", "x">>}

InputNames == <<"i1", "i2", "i3", "i4">>

RECURSIVE registered(_, _)
registered(self, n) ==
    IF n = 0 THEN self
    ELSE Conjunction_register_input(registered(self, n - 1), InputNames[n])

UnitBroadcasters == {Broadcaster_new(o) : o \in OutputLists}
UnitFlipFlops == {FlipFlop_new("ff", o) : o \in OutputLists}
UnitConjunctions ==
    {registered(Conjunction_new("con", o), n) :
        o \in OutputLists, n \in 0..MaxInputs}

UnitSignals ==
    {Signal(src, "unit", lvl) :
        src \in {InputNames[k] : k \in 1..MaxInputs} \cup {"button"},
        lvl \in SignalState}

\* target.process(&signal)
Process ==
    /\ pc = "unit"
    /\ Len(calls) < MaxCalls
    /\ \E signal \in UnitSignals :
          LET done == Module_process(target, signal)
          IN  /\ target' = done.module
              /\ calls' = Append(calls, [before  |-> target,
                                         signal  |-> signal,
                                         emitted |-> done.signals,
                                         after   |-> done.module])
    /\ UNCHANGED sysvars

InitUnit ==
    /\ input = <<>>
    /\ modules = <<>>
    /\ history = SignalHistory_default
    /\ signals = <<>>
    /\ pc = "unit"
    /\ ret = "unit"
    /\ presses = 0
    /\ reads = 0
    /\ counted = SignalHistory_default
    /\ reported = SignalHistory_default
    /\ read_at = 0
    /\ sent = 0
    /\ sent_at = 0
    /\ passes = <<>>
    /\ triggers = <<>>
    /\ callback = NoCallback
    /\ events = <<>>
    /\ text = <<>>
    /\ outcome = NoParse
    /\ queued = <<>>
    /\ processed = <<>>
    /\ configs = <<>>
    /\ current_state = NoState
    /\ seen_states = <<>>
    /\ found = <<>>
    /\ result = 0
    /\ direct = SignalHistory_default
    /\ loops = NoLoops
    /\ highs = NoHighs
    /\ rx_low = 0
    /\ \/ target \in UnitBroadcasters
       \/ target \in UnitFlipFlops
       \/ target \in UnitConjunctions
    /\ calls = <<>>

NextUnit == Process

SpecUnit == InitUnit /\ [][NextUnit]_vars

\* the drain loop of process_queue keeps running until it returns
SpecLive ==
    Init /\ [][Next]_vars /\ WF_vars(ProcessSignal) /\ WF_vars(ProcessQueueReturn)

----------------------------------------------------------------------------
(* Properties.                                                             *)

\* C1: within a trigger the signals are delivered in the order they were
\* queued: the queue_signal calls made so far are exactly the signals
\* already handed out, in that order, followed by the queue as it stands
\* (nothing is taken ahead of an earlier signal, nothing is put in front).
C1_FifoOrder == queued = processed \o signals

\* a FlipFlop's two outputs are waiting behind an earlier signal
C1_Witness ==
    /\ Len(processed) >= 3
    /\ Len(signals) >= 3
    /\ signals[1].source # signals[Len(signals)].source

\* C2: what compute_pulses returns is the product of the Low and High
\* totals of N presses made one after the other on a fresh system.
C2_EqualsDirectRun == (pc = "done") => (result = direct.low * direct.high)

\* the total of C3: the prefix, (N - offset) div period whole periods, and
\* the first (N - offset) mod period entries of the period
C3_Total(seen, offset, period) ==
    LET prefix  == fold_history(slice(seen, 0, offset), 1)
        periods == fold_history(slice(seen, offset, Len(seen)),
                                (N - offset) \div period)
        rest    == fold_history(slice(seen, offset,
                                      offset + ((N - offset) % period)), 1)
    IN  [low  |-> prefix.low + periods.low + rest.low,
         high |-> prefix.high + periods.high + rest.high]

\* C3: once a loop is found, the returned product is that of the total
\* whose number of whole periods and remainder are taken from N - offset.
C3_PeriodsFromNMinusOffset ==
    (found # <<>>) =>
        result = C3_Total(seen_states, found[1], found[2]).low
                   * C3_Total(seen_states, found[1], found[2]).high

\* C4: a loop is declared as soon as the module states of a snapshot equal
\* those of an earlier log entry, whatever the counts: so no snapshot is
\* ever logged whose module states are already in the log.
C4_StateAloneIsKey ==
    \A i, j \in 1..Len(seen_states) :
        i < j => seen_states[i][1] # seen_states[j][1]

\* C5: a Conjunction stores the incoming level under the sender's name,
\* keeps every other recorded level, and sends each output exactly one
\* signal, Low if every recorded level is now High and High otherwise.
C5_ConjunctionProcess ==
    \A i \in 1..Len(calls) :
        LET c == calls[i] IN
        c.before.kind = "Conjunction" =>
            /\ DOMAIN c.after.state = (DOMAIN c.before.state) \cup {c.signal.source}
            /\ c.after.state[c.signal.source] = c.signal.state
            /\ \A k \in DOMAIN c.before.state :
                  k # c.signal.source => c.after.state[k] = c.before.state[k]
            /\ Len(c.emitted) = Len(c.before.outputs)
            /\ \A o \in 1..Len(c.emitted) :
                  /\ c.emitted[o].source = c.before.name
                  /\ c.emitted[o].destination = c.before.outputs[o]
                  /\ (c.emitted[o].state = Low) <=>
                        (\A k \in DOMAIN c.after.state : c.after.state[k] = High)
                  /\ c.emitted[o].state \in SignalState

\* a Conjunction with MaxInputs inputs, all High: it sent High while one was
\* still Low, then Low, and Low again on a signal that changed nothing
C5_Witness ==
    /\ Len(calls) >= 3
    /\ target.kind = "Conjunction"
    /\ Cardinality(DOMAIN target.state) = MaxInputs
    /\ Len(target.outputs) >= 2
    /\ calls[Len(calls) - 2].emitted[1].state = High
    /\ calls[Len(calls) - 1].emitted[1].state = Low
    /\ calls[Len(calls)].before.state = calls[Len(calls)].after.state
    /\ calls[Len(calls)].emitted[2].state = Low

\* C6: on Low a FlipFlop toggles and sends each output one signal carrying
\* its new state; a second Low right after brings back the first state.
C6_FlipFlopLow ==
    \A i \in 1..Len(calls) :
        LET c == calls[i] IN
        (c.before.kind = "FlipFlop" /\ c.signal.state = Low) =>
            /\ c.after.state # c.before.state
            /\ c.after.state \in SignalState
            /\ Len(c.emitted) = Len(c.before.outputs)
            /\ \A o \in 1..Len(c.emitted) :
                  c.emitted[o] = Signal(c.before.name, c.before.outputs[o],
                                        c.after.state)
            /\ (i < Len(calls) /\ calls[i + 1].signal.state = Low) =>
                  calls[i + 1].after.state = c.before.state

\* two Low signals in a row, the first to a FlipFlop that was off
C6_Witness ==
    /\ Len(calls) >= 2
    /\ target.kind = "FlipFlop"
    /\ Len(target.outputs) >= 2
    /\ calls[1].signal.state = Low
    /\ calls[2].signal.state = Low
    /\ calls[1].emitted[1].state = High
    /\ calls[2].emitted[2].state = Low

\* C7: on High a FlipFlop keeps its state and sends nothing.
C7_FlipFlopHigh ==
    \A i \in 1..Len(calls) :
        LET c == calls[i] IN
        (c.before.kind = "FlipFlop" /\ c.signal.state = High) =>
            /\ c.after = c.before
            /\ c.emitted = <<>>

\* a High signal was handed to a FlipFlop that was off and to one that was on
C7_Witness ==
    /\ target.kind = "FlipFlop"
    /\ Len(target.outputs) >= 1
    /\ \E i, j \in 1..Len(calls) :
          /\ calls[i].signal.state = High /\ calls[i].before.state = Low
          /\ calls[j].signal.state = High /\ calls[j].before.state = High

\* C8: a Broadcaster sends each output, in order, one signal from
\* "broadcaster" with the level it received, and stays as it is.
C8_BroadcasterProcess ==
    \A i \in 1..Len(calls) :
        LET c == calls[i] IN
        c.before.kind = "Broadcaster" =>
            /\ c.after = c.before
            /\ Len(c.emitted) = Len(c.before.outputs)
            /\ \A o \in 1..Len(c.emitted) :
                  c.emitted[o] = Signal("broadcaster", c.before.outputs[o],
                                        c.signal.state)

\* a Broadcaster with three outputs was handed a Low and a High signal
C8_Witness ==
    /\ target.kind = "Broadcaster"
    /\ Len(target.outputs) = 3
    /\ \E i, j \in 1..Len(calls) :
          /\ calls[i].signal.state = Low /\ Len(calls[i].emitted) = 3
          /\ calls[j].signal.state = High /\ Len(calls[j].emitted) = 3

\* the module graph: an edge from a module to each output that names a module
Names == {Module_get_name(modules[i]) : i \in 1..Len(modules)}
Edges ==
    {e \in Names \X Names :
        \E i \in 1..Len(modules) :
            /\ Module_get_name(modules[i]) = e[1]
            /\ e[2] \in Range(modules[i].outputs)}
FlipFlops ==
    {Module_get_name(modules[i]) :
        i \in {k \in 1..Len(modules) : modules[k].kind = "FlipFlop"}}

\* the nodes reached from `from` by one edge or more, over the nodes `within`
RECURSIVE Reach(_, _, _)
Reach(from, within, n) ==
    LET step(S) == {e[2] : e \in {d \in Edges : d[1] \in S /\ d[2] \in within}}
    IN  IF n = 0 THEN step(from)
        ELSE LET r == Reach(from, within, n - 1) IN r \cup step(r)

HasCycle(within) ==
    \E m \in within : m \in Reach({m}, within, Cardinality(within))

FlipFlopOnEveryCycle == ~HasCycle(Names \ FlipFlops)
Acyclic == ~HasCycle(Names)

\* C9 as claimed, in the form a finite run refutes: with a FlipFlop on every
\* directed cycle every trigger drains its queue and returns, so its loop,
\* which is a function of the modules and the queue alone, is never back with
\* a queue and modules it has already had in that trigger.
C9_FlipFlopCyclesTerminate ==
    (pc = "process_queue" /\ FlipFlopOnEveryCycle) =>
        \A i \in 1..Len(configs) : configs[i] # <<modules, signals>>

\* C9: in a network without directed cycles every trigger drains its queue
\* and returns.
C9_AcyclicTerminates ==
    (pc = "process_queue" /\ Acyclic) ~> (pc = "ready")

\* a network without cycles back at rest after its third trigger
C9_Witness ==
    /\ Acyclic
    /\ pc = "ready"
    /\ presses = 3
    /\ Len(processed) >= 5
    /\ signals = <<>>

\* C10: on TEST_SYSTEM_1 the first trigger counts 8 Low and 4 High signals
\* and leaves every module, FlipFlops a, b and c included, as it was built.
C10_FirstTrigger ==
    (input = TEST_SYSTEM_1 /\ presses = 1 /\ pc = "ready" /\ reads = 0) =>
        /\ history = [low |-> 8, high |-> 4]
        /\ \A i \in 2..4 : modules[i].kind = "FlipFlop" /\ modules[i].state = Low
        /\ modules = SignalSystem_from_str(TEST_SYSTEM_1).modules

\* TEST_SYSTEM_1 at rest after its first trigger, 12 signals delivered
C10_Witness ==
    /\ input = TEST_SYSTEM_1
    /\ presses = 1
    /\ pc = "ready"
    /\ reads = 0
    /\ Len(processed) = 12

\* C11: compute_pulses returns 32000000 on TEST_SYSTEM_1 and 11687500 on
\* TEST_SYSTEM_2, the product of the Low and High totals of 1000 triggers.
C11_TestProducts ==
    (pc \in {"returned", "direct", "done"} \/ ret = "direct") =>
        /\ input = TEST_SYSTEM_1 => result = 32000000
        /\ input = TEST_SYSTEM_2 => result = 11687500
        /\ (pc = "done" /\ input \in {TEST_SYSTEM_1, TEST_SYSTEM_2}) =>
              result = direct.low * direct.high

\* both test systems have returned: the first after a loop of 1, the second
\* after a loop of 4, and the 1000 plain triggers have been counted
C11_Witness ==
    /\ pc = "done"
    /\ \/ input = TEST_SYSTEM_1 /\ found = <<0, 1>> /\ direct = [low |-> 8000, high |-> 4000]
       \/ input = TEST_SYSTEM_2 /\ found = <<0, 4>> /\ direct = [low |-> 4250, high |-> 2750]

\* C12: on TEST_SYSTEM_2, with no snapshot taken, the counters after triggers
\* 1..4 are (4,4), (8,6), (13,9), (17,11), FlipFlops (a, b) are (on,on),
\* (off,on), (on,off), (off,off), and the modules are as built again after
\* trigger 4 and not before.
C12_FourTriggers ==
    (input = TEST_SYSTEM_2 /\ pc = "ready" /\ reads = 0 /\ presses \in 1..4) =>
        /\ <<presses, history.low, history.high, modules[2].state, modules[4].state>>
              \in {<<1, 4, 4, High, High>>, <<2, 8, 6, Low, High>>,
                   <<3, 13, 9, High, Low>>, <<4, 17, 11, Low, Low>>}
        /\ (modules = SignalSystem_from_str(TEST_SYSTEM_2).modules) <=> (presses = 4)

\* TEST_SYSTEM_2 at rest after its fourth trigger, no snapshot taken
C12_Witness ==
    /\ input = TEST_SYSTEM_2
    /\ pc = "ready"
    /\ reads = 0
    /\ presses = 4
    /\ history = [low |-> 17, high |-> 11]

\* the trigger at which a watched node sent its first High
FirstHigh(w) == CHOOSE q \in highs[w] : \A r \in highs[w] : q <= r

\* C13: the count button_presses_before_low_output keeps for a watched node
\* is the trigger of that node's first High; a later High leaves it alone.
C13_FirstHighRecorded ==
    (ret = "button_presses" \/ pc = "presses_returned")
        => \A w \in Watched : loops[w] # 0 => loops[w] = FirstHigh(w)

\* C14: button_presses_before_low_output returns the least common multiple
\* of the four first-High triggers, 24 on the network of periods 3, 4, 6, 8.
C14_LcmOfFirstHighs ==
    (pc = "presses_returned")
        => /\ result = lcm(lcm(FirstHigh("ss"), FirstHigh("fz")),
                           lcm(FirstHigh("mf"), FirstHigh("fh")))
           /\ input = SCENARIO_SYSTEM => result = 24

\* the half of C14 about the network of periods 3, 4, 6 and 8
C14_Scenario ==
    (pc = "presses_returned" /\ input = SCENARIO_SYSTEM)
        => /\ \A w \in Watched : highs[w] # {}
           /\ <<FirstHigh("ss"), FirstHigh("fz"), FirstHigh("mf"), FirstHigh("fh")>>
                 = <<3, 4, 6, 8>>
           /\ result = 24

\* the Conjunction that feeds rx hears the four watched nodes and no other
TerminalWatches ==
    \E i \in 1..Len(modules) :
        /\ modules[i].kind = "Conjunction"
        /\ \E k \in 1..Len(modules[i].outputs) : modules[i].outputs[k] = "rx"
        /\ DOMAIN modules[i].state = Watched

\* every watched node sent High at the multiples of its first High, only
Periodic ==
    \A w \in Watched :
        /\ highs[w] # {}
        /\ highs[w] = {k \in 1..presses : k % FirstHigh(w) = 0}

\* C15: where the Conjunction before rx hears exactly the four watched nodes
\* and each sends High at the multiples of its first High, the value returned
\* is the first trigger of a plain run during which rx is sent a Low.
C15_EqualsDirectSearch ==
    (pc = "rx_done" /\ rx_low # 0 /\ TerminalWatches /\ Periodic)
        => result = rx_low

\* C16: get_state returns every module's state with the counts gathered since
\* the last get_state and clears the counts, leaving the modules and the queue
\* alone; so every counted signal is in one snapshot and no more, and a
\* get_state that follows another with no trigger between them returns (0, 0).
C16_SnapshotClearsCounts ==
    [][ /\ counted' = add_history(reported', history')
        /\ reads' = reads + 1 =>
              /\ current_state' =
                    <<[i \in 1..Len(modules) |-> Module_get_state(modules[i])],
                      history>>
              /\ history' = SignalHistory_default
              /\ modules' = modules
              /\ signals' = signals
              /\ (reads > 0 /\ read_at = presses)
                    => current_state'[2] = SignalHistory_default ]_vars

\* a get_state that followed another one with no trigger between the two
C16_Witness ==
    /\ pc = "ready"
    /\ reads >= 2
    /\ presses >= 1
    /\ read_at = presses
    /\ reported.low > 0
    /\ current_state[2] = SignalHistory_default

\* C17: a signal taken from the queue whose destination names no module is
\* counted, by one, and nothing more: no module changes, nothing is queued,
\* and the drain goes on.
C17_UnknownDestination ==
    [][ ( /\ pc = "process_queue"
          /\ signals # <<>>
          /\ processed' = Append(processed, Head(signals))
          /\ \A i \in 1..Len(modules) :
                Module_get_name(modules[i]) # Head(signals).destination )
        => /\ history' = count_signal(history, Head(signals))
           /\ history'.low + history'.high = history.low + history.high + 1
           /\ modules' = modules
           /\ signals' = Tail(signals)
           /\ queued' = queued
           /\ pc' = "process_queue" ]_vars

\* a signal to a name that no module has was taken from the queue
C17_Witness ==
    \E k \in 1..Len(processed) :
        /\ processed[k].state = High
        /\ \A i \in 1..Len(modules) :
              Module_get_name(modules[i]) # processed[k].destination

\* C18: where no entry of the log matches before the log holds N entries,
\* compute_pulses has pressed the button N times, no more, and returns the
\* product of the Low and the High totals of those N triggers.
C18_NoLoopWithinN ==
    (pc = "returned" /\ found = <<>>)
        => /\ presses = N
           /\ Len(seen_states) = N
           /\ reads = N
           /\ result = counted.low * counted.high
           /\ result = fold_history(CounterLog(N), 1).low
                          * fold_history(CounterLog(N), 1).high

\* compute_pulses returned with no loop found
C18_Witness == pc = "returned" /\ found = <<>> /\ result > 0

\* the run of compute_pulses from the system as built passes through the
\* state SpecTail starts in
C18_TailIsReached ==
    (input = COUNTER_SYSTEM /\ pc = "process_queue" /\ ret = "loop"
        /\ processed = <<>> /\ presses = TailStart + 1)
        => /\ modules = CounterModules(TailStart)
           /\ history = SignalHistory_default
           /\ signals = <<button_signal>>
           /\ reads = TailStart
           /\ counted = fold_history(CounterLog(TailStart), 1)
           /\ reported = fold_history(CounterLog(TailStart), 1)
           /\ read_at = TailStart
           /\ queued = <<button_signal>>
           /\ configs = <<>>
           /\ current_state = CounterLog(TailStart)[TailStart]
           /\ seen_states = CounterLog(TailStart)
           /\ found = <<>>
           /\ result = 0
           /\ direct = SignalHistory_default
           /\ <<loops, highs, rx_low>> = <<NoLoops, NoHighs, 0>>
           /\ target = NoModule
           /\ calls = <<>>

\* the run from the system as built does reach the point SpecTail starts at
C18_TailPoint ==
    /\ input = COUNTER_SYSTEM
    /\ pc = "process_queue"
    /\ ret = "loop"
    /\ processed = <<>>
    /\ presses = TailStart + 1

\* C19: where compute_pulses finds a loop its length is 1 or more, so that
\* nothing is divided by zero, and [0, offset), [offset, len) and
\* [offset, offset + remainder) are ranges of the log, so that no slice
\* panics; an offset of 0 makes the part before the loop (0, 0) and a
\* remainder of 0 makes the part after it (0, 0).
C19_RangesWithinLog ==
    (found # <<>>)
        => /\ pc # "panicked"
           /\ found[2] >= 1
           /\ 0 <= found[1]
           /\ found[1] <= Len(seen_states)
           /\ found[1] + found[2] = Len(seen_states)
           /\ found[2] >= 1 =>
                 /\ found[1] + (N % found[2]) <= Len(seen_states)
                 /\ (N % found[2] = 0) =>
                       fold_history(slice(seen_states, found[1],
                                          found[1] + (N % found[2])), 1)
                          = SignalHistory_default
           /\ (found[1] = 0) =>
                 fold_history(slice(seen_states, 0, found[1]), 1)
                    = SignalHistory_default

\* a loop found at offset 0 whose length divides N
C19_Witness ==
    /\ pc = "returned"
    /\ found # <<>>
    /\ found[1] = 0
    /\ N % found[2] = 0

\* the names of the modules of the text that list `name` among their outputs
Listing(name) ==
    {Module_get_name(Module_from_str(input[j])) : j \in
        {j \in 1..Len(input) : name \in Range(input[j].outputs)}}

\* C20: in the system as built every Conjunction remembers Low for each
\* module that lists it among its outputs and for no other name, every
\* FlipFlop is off, the queue is empty and both counters are zero; nothing
\* is registered on a Broadcaster or a FlipFlop, and a destination that no
\* module has gets no module.
C20_AsBuilt ==
    (presses = 0 /\ input # <<>>)
        => /\ Len(modules) = Len(input)
           /\ \A i \in 1..Len(modules) :
                 IF modules[i].kind = "Conjunction"
                 THEN /\ DOMAIN modules[i].state = Listing(modules[i].name)
                      /\ \A k \in DOMAIN modules[i].state :
                            modules[i].state[k] = Low
                      /\ modules[i].outputs = input[i].outputs
                 ELSE modules[i] = Module_from_str(input[i])
           /\ \A i \in 1..Len(modules) :
                 modules[i].kind = "FlipFlop" => modules[i].state = Low
           /\ signals = <<>>
           /\ history = SignalHistory_default

\* a system as built with a Conjunction of two inputs and, among the
\* destinations, a name that no module has
C20_Witness ==
    /\ presses = 0
    /\ \E i \in 1..Len(modules) :
          /\ modules[i].kind = "Conjunction"
          /\ Cardinality(DOMAIN modules[i].state) = 2
    /\ \E i \in 1..Len(modules) : \E k \in 1..Len(modules[i].outputs) :
          \A j \in 1..Len(modules) :
              Module_get_name(modules[j]) # modules[i].outputs[k]

\* the label of a line: what stands before its first "->", trimmed
LabelOf(cs) == trim(split(cs, <<"-", ">">>)[1])

\* a line with no "->" or more than one, with an empty label, or with a
\* label that neither starts with % or & nor is "broadcaster"
Malformed(cs) ==
    \/ Cardinality({i \in 1..(Len(cs) - 1) : cs[i] = "-" /\ cs[i + 1] = ">"}) # 1
    \/ LabelOf(cs) = <<>>
    \/ /\ LabelOf(cs)[1] \notin {"%", "&"}
       /\ LabelOf(cs) # chars("broadcaster")

\* C21: from_str on a text with a malformed line returns an error value,
\* that of the first malformed line, and builds no network.
C21_MalformedLineIsErr ==
    (pc # "from_str" /\ \E i \in 1..Len(text) : Malformed(text[i]))
        => LET first == CHOOSE i \in 1..Len(text) :
                           /\ Malformed(text[i])
                           /\ \A j \in 1..(i - 1) : ~Malformed(text[j])
           IN  /\ outcome.kind = "Err"
               /\ outcome.about \in {text[first], LabelOf(text[first])}
               /\ modules = <<>>

\* C22: button_presses_before_low_output ends after a bounded number of
\* triggers on every network, those without the watched nodes included.  The
\* loop is deterministic in the module states and the four recorded counts,
\* so it ends only if no failing loop test meets a configuration (module
\* states, recorded counts) that an earlier failing test already met.
C22_LoopMakesProgress ==
    (/\ pc = "button_presses"
     /\ Option_and(Option_and(Option_and(loops.ss, loops.fz), loops.mf),
                   loops.fh) = 0)
        => \A i \in 1..Len(passes) : passes[i] # <<modules, loops>>

\* C23: press_button is deterministic: two presses that start from equal
\* module states, an empty queue and equal counters end with equal module
\* states and equal counters, and process the same signals in the same order.
C23_SameStartSameEnd ==
    \A i, j \in 1..Len(triggers) :
        (/\ triggers[i].complete
         /\ triggers[j].complete
         /\ triggers[i].before = triggers[j].before)
            => /\ triggers[i].after = triggers[j].after
               /\ triggers[i].processed = triggers[j].processed

\* two completed presses of one run started from equal states and counters
C23_Witness ==
    \E i, j \in 1..Len(triggers) :
        /\ i < j
        /\ triggers[i].complete
        /\ triggers[j].complete
        /\ triggers[i].before = triggers[j].before
        /\ Len(triggers[j].processed) > 1
        /\ triggers[j].after # triggers[j].before

\* C24: the queue is empty whenever the system is not inside process_queue:
\* when a press returns, when the next press starts and at every get_state.
C24_QueueEmptyOutsidePress ==
    pc # "process_queue" => signals = <<>>

\* a press that delivered signals has returned and a snapshot was taken
C24_Witness ==
    /\ pc = "ready"
    /\ presses > 1
    /\ reads > 0
    /\ Len(processed) > 1
    /\ signals = <<>>

\* the input map a module was given at construction
Registered(i) == SignalSystem_from_str(input).modules[i].state

\* every Conjunction has the keys it was built with, and every signal of the
\* current press that went to a Conjunction came from one of them
KeysAsRegistered ==
    /\ \A i \in 1..Len(modules) :
            modules[i].kind = "Conjunction"
                => DOMAIN modules[i].state = DOMAIN Registered(i)
    /\ \A k \in 1..Len(processed) :
            LET t == get_module_mut(modules, processed[k].destination)
            IN  (t # 0 /\ modules[t].kind = "Conjunction")
                    => processed[k].source \in DOMAIN Registered(t)

\* no Conjunction is the module the button signal is addressed to
NoButtonConjunction ==
    \A i \in 1..Len(modules) :
        modules[i].kind = "Conjunction" => modules[i].name # "broadcaster"

\* C25 as stated: after any sequence of triggers the key set of every
\* Conjunction's input map is the set registered at construction, on every
\* network from_str builds.
C25_KeysAsRegistered == KeysAsRegistered

\* C25: after any sequence of triggers the key set of every Conjunction's
\* input map is the set registered at construction, and every signal a
\* Conjunction receives comes from a registered sender, provided no
\* Conjunction is named "broadcaster".
C25_KeysAsRegisteredUnlessButton == NoButtonConjunction => KeysAsRegistered

\* a Conjunction with two registered senders has heard High from one of them
\* and two presses have returned
C25_Witness ==
    /\ NoButtonConjunction
    /\ pc = "ready"
    /\ presses >= 2
    /\ \E i \in 1..Len(modules) :
            /\ modules[i].kind = "Conjunction"
            /\ Cardinality(DOMAIN modules[i].state) = 2
            /\ \E k \in DOMAIN modules[i].state : modules[i].state[k] = High

\* what from_str fixes of the module at position i: kind, name, output list
Structure(mods, i) ==
    <<mods[i].kind, Module_get_name(mods[i]), Module_get_outputs(mods[i])>>

\* C26: a step changes a module only if it is the processing of the signal at
\* the head of the queue and the module is the one named as that signal's
\* destination; at most one module changes per step, and no step (press,
\* processing, return, snapshot) changes the number of modules or the kind,
\* name or output list of any of them.
C26_OnlyDestinationChanges ==
    [][ /\ Len(modules') = Len(modules)
        /\ \A i \in 1..Len(modules) :
               Structure(modules', i) = Structure(modules, i)
        /\ \A i \in 1..Len(modules) :
               modules'[i] # modules[i]
                   => /\ pc = "process_queue"
                      /\ signals # <<>>
                      /\ Module_get_name(modules[i]) = Head(signals).destination
        /\ Cardinality({i \in 1..Len(modules) : modules'[i] # modules[i]}) <= 1
      ]_vars

\* the signal processed last changed exactly one module, and that in a
\* network with more than one stateful module
C26_Witness ==
    /\ pc = "process_queue"
    /\ Len(configs) > 2
    /\ Len(configs[Len(configs)][1]) = Len(modules)
    /\ Cardinality({i \in 1..Len(modules) :
                        configs[Len(configs)][1][i] # modules[i]}) = 1
    /\ Cardinality({i \in 1..Len(modules) :
                        modules[i].kind # "Broadcaster"}) > 1

\* the states of all modules, as get_state lists them
ModuleStates(mods) == [i \in 1..Len(mods) |-> Module_get_state(mods[i])]

\* the module states of the network as built
InitialStates == ModuleStates(SignalSystem_from_str(input).modules)

\* the Low and High signals among those a trigger processed
Counts(sigs) ==
    [low  |-> Cardinality({k \in 1..Len(sigs) : sigs[k].state = Low}),
     high |-> Cardinality({k \in 1..Len(sigs) : sigs[k].state = High})]

\* the snapshot compute_pulses takes when trigger `presses` has returned
Snapshot == <<ModuleStates(modules), Counts(processed)>>

\* the first log entry, counted from 1, whose module states are the initial
\* ones; 0 if there is none
FirstReturn ==
    IF \E k \in 1..Len(seen_states) : seen_states[k][1] = InitialStates
    THEN CHOOSE k \in 1..Len(seen_states) :
            /\ seen_states[k][1] = InitialStates
            /\ \A j \in 1..(k - 1) : seen_states[j][1] # InitialStates
    ELSE 0

\* what holds of the log and of a detected loop in every state
LogAndLoop ==
    /\ \A k \in 1..Len(seen_states) : seen_states[k][2].low >= 1
    /\ (found # <<>> /\ pc = "returned")
            => presses = Len(seen_states) + 1
    /\ (found # <<>> /\ FirstReturn # 0)
            => /\ found = <<0, FirstReturn>>
               /\ Len(seen_states) = FirstReturn
    /\ (pc = "direct" /\ presses >= 1 /\ presses < N
            /\ ModuleStates(modules) = InitialStates)
            => /\ found # <<>>
               /\ FirstReturn # 0
               /\ FirstReturn <= presses

\* C27: the log of compute_pulses holds no snapshot taken before the first
\* trigger: the entry pushed after trigger i+1 is entry i and holds the
\* module states after that trigger and the counts of that trigger alone.  A
\* match is declared at the smallest matching index, with period = log length
\* - offset.  On a network whose module states are first back at the initial
\* ones after p <= 999 triggers the loop is found after p+1 triggers, with
\* offset 0 and period p.
C27_LogAndDetection ==
    /\ []LogAndLoop
    /\ [][
        /\ (pc = "loop" /\ seen_states' # seen_states)
               => /\ Len(seen_states) = presses - 1
                  /\ seen_states' = Append(seen_states, Snapshot)
        /\ (pc = "loop" /\ found' # found)
               => /\ seen_states[found'[1] + 1] = Snapshot
                  /\ \A j \in 1..found'[1] : seen_states[j] # Snapshot
                  /\ found'[2] = Len(seen_states) - found'[1]
       ]_vars

\* the second example network: back at its initial states after 4 triggers,
\* found after 5 with offset 0 and period 4
C27_Witness ==
    /\ input = TEST_SYSTEM_2
    /\ pc = "returned"
    /\ FirstReturn = 4
    /\ found = <<0, 4>>
    /\ presses = 5

\* the signals dequeued by the triggers after trigger `from`, the one that is
\* still running included
RECURSIVE Dequeued(_)
Dequeued(from) ==
    IF from >= Len(triggers) THEN 0
    ELSE (IF triggers[from + 1].complete
          THEN Len(triggers[from + 1].processed)
          ELSE Len(processed))
         + Dequeued(from + 1)

\* the counters account for every signal dequeued since the last get_state,
\* and between triggers those are the button signals and the signals that
\* the modules sent
Conserved ==
    /\ history.low + history.high = Dequeued(read_at)
    /\ pc = "ready"
           => /\ Dequeued(read_at) = (presses - read_at) + (sent - sent_at)
              /\ history.low >= presses - read_at

\* C28: a press queues exactly one signal, Low from "button" to
\* "broadcaster"; a dequeued signal adds one to the counter of its level and
\* nothing to the other; only get_state resets a counter.  Hence between
\* triggers low + high is the number of signals dequeued since the last
\* get_state, which is the number of triggers since then plus the number of
\* signals the modules sent, and low is at least that number of triggers.
C28_CountersConserved ==
    /\ []Conserved
    /\ [][
        /\ presses' # presses
               => /\ signals' = Append(signals,
                                       Signal("button", "broadcaster", Low))
                  /\ history' = history
        /\ (pc = "process_queue" /\ signals # <<>>)
               => /\ history'.low = history.low
                                       + (IF Head(signals).state = Low
                                          THEN 1 ELSE 0)
                  /\ history'.high = history.high
                                       + (IF Head(signals).state = High
                                          THEN 1 ELSE 0)
        /\ (history'.low < history.low \/ history'.high < history.high)
               => /\ reads' = reads + 1
                  /\ history' = SignalHistory_default
       ]_vars

\* between triggers, after a snapshot and two more triggers in which modules
\* sent High signals
C28_Witness ==
    /\ pc = "ready"
    /\ reads >= 1
    /\ presses - read_at = 2
    /\ sent - sent_at > 0
    /\ history.high > 0
    /\ history.low > 2

\* module f is registered as an input of module d: f lists a name that
\* from_str resolves to d
RegisteredAt(f, d) ==
    \E o \in 1..Len(Module_get_outputs(modules[f])) :
        get_module_mut(modules, Module_get_outputs(modules[f])[o]) = d

\* every Conjunction holds High for a FlipFlop input exactly if that FlipFlop
\* is on, and Low for a Broadcaster input
RecordsAgree ==
    \A d \in 1..Len(modules) : \A f \in 1..Len(modules) :
        (modules[d].kind = "Conjunction" /\ RegisteredAt(f, d))
            => /\ modules[f].kind = "FlipFlop"
                  => (modules[d].state[modules[f].name] = High
                         <=> modules[f].state = High)
               /\ modules[f].kind = "Broadcaster"
                  => modules[d].state["broadcaster"] = Low

\* no two modules of one name, and no module sends to the Broadcaster
PlainNetwork ==
    /\ \A i, j \in 1..Len(modules) :
           Module_get_name(modules[i]) = Module_get_name(modules[j]) => i = j
    /\ \A i \in 1..Len(modules) :
           \A o \in 1..Len(Module_get_outputs(modules[i])) :
               Module_get_outputs(modules[i])[o] # "broadcaster"

\* C29 as stated: whenever the queue is empty, every Conjunction holds High
\* for a FlipFlop input exactly if that FlipFlop is on and Low for a
\* Broadcaster input, on every network from_str builds.
C29_QuiescentRecordsAgree == signals = <<>> => RecordsAgree

\* C29: whenever the queue is empty, every Conjunction holds High for a
\* FlipFlop input exactly if that FlipFlop is on and Low for a Broadcaster
\* input, provided module names are unique and no module lists "broadcaster"
\* among its outputs.
C29_QuiescentRecordsAgreeOnPlain ==
    (PlainNetwork /\ signals = <<>>) => RecordsAgree

\* between triggers a Conjunction that has the Broadcaster among its inputs
\* holds High for a FlipFlop that is on and Low for one that is off
C29_Witness ==
    /\ PlainNetwork
    /\ pc = "ready"
    /\ presses >= 2
    /\ signals = <<>>
    /\ \E d \in 1..Len(modules) :
           /\ modules[d].kind = "Conjunction"
           /\ "broadcaster" \in DOMAIN modules[d].state
           /\ \E f, g \in 1..Len(modules) :
                  /\ modules[f].kind = "FlipFlop"
                  /\ modules[g].kind = "FlipFlop"
                  /\ RegisteredAt(f, d)
                  /\ RegisteredAt(g, d)
                  /\ modules[f].state = High
                  /\ modules[g].state = Low

\* the signals the callback was handed in the current trigger, in call order
Observed ==
    LET calls_ == SelectSeq(events, LAMBDA e : e.call = "on_signal")
    IN  [k \in 1..Len(calls_) |-> calls_[k].signal]

\* C30: in a trigger the callback is called exactly once for every dequeued
\* signal, in dequeue order, the button signal and signals to names that no
\* module carries included; the destination's process is called right after
\* the callback was handed the same signal; and a trigger with the callback
\* of button_presses_before_low_output ends with the module states, counters
\* and processed sequence of a trigger by press_button from the same start.
C30_CallbackSeesEverySignal ==
    /\ Observed = processed
    /\ \A k \in 1..Len(events) :
           /\ events[k].call = "process"
                  => /\ k > 1
                     /\ events[k - 1] = [call |-> "on_signal",
                                         signal |-> events[k].signal]
           /\ (/\ events[k].call = "on_signal"
               /\ get_module_mut(modules, events[k].signal.destination) # 0)
                  => /\ k < Len(events)
                     /\ events[k + 1] = [call |-> "process",
                                         signal |-> events[k].signal]
    /\ \A i, j \in 1..Len(triggers) :
           (/\ triggers[i].complete
            /\ triggers[j].complete
            /\ triggers[i].callback # triggers[j].callback
            /\ triggers[i].before = triggers[j].before)
               => /\ triggers[i].after = triggers[j].after
                  /\ triggers[i].processed = triggers[j].processed

\* a trigger with the callback has returned; it handed the callback a signal
\* to a name that no module carries, the closure noted a High signal of ss,
\* and an earlier trigger by press_button started from the same module states
\* and counters
C30_Witness ==
    /\ pc = "ready"
    /\ callback = "loops"
    /\ loops.ss = presses
    /\ Len(processed) > 2
    /\ processed[1] = Signal("button", "broadcaster", Low)
    /\ \E k \in 1..Len(processed) :
           get_module_mut(modules, processed[k].destination) = 0
    /\ \E i \in 1..(Len(triggers) - 1) :
           /\ triggers[i].callback = NoCallback
           /\ triggers[i].complete
           /\ triggers[i].before = triggers[Len(triggers)].before

====
